---- MODULE Spec2Model ----
(***************************************************************************)
(* A model of the id-vec crate: IdVec<T> (src/src/vec.rs), a dense vector  *)
(* of elements plus a set of unused indices, addressed by Id<T> handles.   *)
(* Indices are 0-based as in the source; the element with index i is       *)
(* elements[i + 1] of the TLA+ sequence.                                   *)
(***************************************************************************)
EXTENDS Integers, Sequences, FiniteSets, TLC

\* Bounds of the model.
MaxLen == 3
NumValues == 2
\* The number of next() calls made on an Iter that has nothing left to yield.
MaxNoneCalls == 2
\* The width of Index (usize) in the model, in bits.
usize_BITS == 4

\* The element values T and the handles a caller may present.
\* MaxLen is a handle that is out of range in every state.
Values == 0 .. (NumValues - 1)
Ids == 0 .. MaxLen

VARIABLES
    elements,          \* IdVec.elements: Vec<T>
    unused_indices,    \* IdVec.unused_indices: HashSet<Index>
    pc,                \* "idle", or the method that is running: "pack", "drain"
    pack_unused,       \* pack: the local `unused_indices` taken out of self
    remaps,            \* the calls remap(old, new) made by the most recent call
    drain,             \* the live DrainElements iterator
    failed,            \* messages of the assertions / panics that fired
    last,              \* the most recent call: name, arguments, state before, result
    prev,              \* a summary of the call before `last`
    owned_id_iter,     \* the OwnedIdIter the caller holds, and what it has yielded
    borrowed_iter,     \* the Iter that borrows the IdVec while pc = "iter"
    other,             \* a second IdVec, the `other` of the comparisons
    markers            \* a HashSetElementMarker and a BitVecElementMarker, side by side

vars == <<elements, unused_indices, pc, pack_unused, remaps, drain, failed, last, prev,
          owned_id_iter, borrowed_iter, other, markers>>

----------------------------------------------------------------------------
\* Option<T>: None is the empty sequence, Some(x) is <<x>>.
None == <<>>
Some(x) == <<x>>

\* Vec<T>::pop, as far as the vector is concerned.
VecPop(v) == IF Len(v) = 0 THEN v ELSE SubSeq(v, 1, Len(v) - 1)

\* Vec<T>::swap(i, j).
VecSwap(v, i, j) == [v EXCEPT ![i + 1] = v[j + 1], ![j + 1] = v[i + 1]]

\* IdVec { unused_indices: HashSet::new(), elements }
from_vec(elems) == [elements |-> elems, unused_indices |-> {}]

index_is_currently_used(self, index) ==
    \/ index + 1 = Len(self.elements)
    \/ index \notin self.unused_indices

index_is_in_range(self, index) == index < Len(self.elements)

\* usize::MAX, the largest index an Id can carry (Id::from_index).
usize_MAX == 2 ^ usize_BITS - 1

\* `a + b` on usize: the sum, which wraps around in a build without overflow
\* checks, or the panic of a build with overflow checks.
usize_add(a, b, overflow_checks) ==
    IF a + b <= usize_MAX THEN [value |-> a + b, failed |-> {}]
    ELSE IF overflow_checks
    THEN [value |-> 0, failed |-> {"attempt to add with overflow"}]
    ELSE [value |-> (a + b) % (usize_MAX + 1), failed |-> {}]

\* index_is_currently_used for every index a usize can hold: the answer and
\* the panic of `index + 1`.
index_is_currently_used_usize(self, index, overflow_checks) ==
    LET sum == usize_add(index, 1, overflow_checks)
    IN  [value  |-> \/ sum.value = Len(self.elements)
                    \/ index \notin self.unused_indices,
         failed |-> sum.failed]

\* get and get_mut for every index a usize can hold: the Option returned and
\* the panic, after which nothing is returned.
get_usize(self, element, overflow_checks) ==
    LET used == index_is_currently_used_usize(self, element, overflow_checks)
    IN  [value  |-> IF used.failed = {} /\ used.value
                       /\ element < Len(self.elements)
                    THEN <<self.elements[element + 1]>> ELSE <<>>,
         failed |-> used.failed]

len(self) == Len(self.elements) - Cardinality(self.unused_indices)

is_empty(self) == len(self) = 0

contains_id(self, element) ==
    /\ index_is_in_range(self, element)
    /\ index_is_currently_used(self, element)

is_packed(self) == self.unused_indices = {}

\* The debug assertion inside len().
assert_len(self) ==
    IF Len(self.elements) >= Cardinality(self.unused_indices)
    THEN {} ELSE {"More ids are unused than exist"}

debug_assert_id_validity(self, element, validity) ==
    IF contains_id(self, element) = validity
    THEN {} ELSE {"Expected validity, but was not"}

debug_assert_last_element_is_used(self) ==
    assert_len(self) \cup
    IF assert_len(self) = {} /\ ~is_empty(self)
       /\ ~contains_id(self, Len(self.elements) - 1)
    THEN {"Last element is unused"} ELSE {}

clear(self) == [elements |-> <<>>, unused_indices |-> {}]

\* pop_back_unused_loop with `contains` in place of `remove`: the index of a
\* popped slot stays in the set.
RECURSIVE pop_back_unused_loop_keeps_index(_)
pop_back_unused_loop_keeps_index(self) ==
    IF Len(self.elements) # 0
       /\ (Len(self.elements) - 1) \in self.unused_indices
    THEN pop_back_unused_loop_keeps_index(
            [self EXCEPT !.elements = VecPop(@)])
    ELSE self

RECURSIVE pop_back_unused_loop(_)
pop_back_unused_loop(self) ==
    IF Len(self.elements) # 0
       /\ (Len(self.elements) - 1) \in self.unused_indices
    THEN pop_back_unused_loop(
            [elements |-> VecPop(self.elements),
             unused_indices |-> self.unused_indices \ {Len(self.elements) - 1}])
    ELSE self

\* pop_back_unused that takes a single remaining used element for none.
pop_back_unused_clears_early(self) ==
    IF Len(self.elements) <= Cardinality(self.unused_indices) + 1
    THEN clear(self)
    ELSE pop_back_unused_loop(self)

pop_back_unused(self) ==
    IF Len(self.elements) = Cardinality(self.unused_indices)
    THEN clear(self)
    ELSE pop_back_unused_loop(self)

\* remove that pops the last element but leaves the unused elements behind it.
remove_without_cascade(self, element) ==
    IF index_is_in_range(self, element)
    THEN IF element + 1 = Len(self.elements)
         THEN [self EXCEPT !.elements = VecPop(@)]
         ELSE [self EXCEPT !.unused_indices = @ \cup {element}]
    ELSE self

\* remove that marks every element unused, the last one too.
remove_marks_last(self, element) ==
    IF index_is_in_range(self, element)
    THEN [self EXCEPT !.unused_indices = @ \cup {element}]
    ELSE self

\* remove that only handles the last element.
remove_only_last(self, element) ==
    IF index_is_in_range(self, element) /\ element + 1 = Len(self.elements)
    THEN pop_back_unused([self EXCEPT !.elements = VecPop(@)])
    ELSE self

\* remove without the range check.
remove_unchecked(self, element) ==
    IF element + 1 = Len(self.elements)
    THEN pop_back_unused([self EXCEPT !.elements = VecPop(@)])
    ELSE [self EXCEPT !.unused_indices = @ \cup {element}]

remove(self, element) ==
    IF index_is_in_range(self, element)
    THEN IF element + 1 = Len(self.elements)
         THEN pop_back_unused([self EXCEPT !.elements = VecPop(@)])
         ELSE [self EXCEPT !.unused_indices = @ \cup {element}]
    ELSE self

\* pop that leaves the element in the vector and marks its index unused.
pop_marks_unused(self) ==
    [self   |-> IF Len(self.elements) = 0 THEN self
                ELSE [self EXCEPT !.unused_indices = @ \cup {Len(self.elements) - 1}],
     popped |-> IF Len(self.elements) = 0 THEN None
                ELSE Some(<<Len(VecPop(self.elements)),
                            self.elements[Len(self.elements)]>>)]

\* pop that builds the Id from the length before popping.
pop_id_before(self) ==
    [self   |-> pop_back_unused([self EXCEPT !.elements = VecPop(@)]),
     popped |-> IF Len(self.elements) = 0 THEN None
                ELSE Some(<<Len(self.elements),
                            self.elements[Len(self.elements)]>>)]

\* pop returns the new IdVec and the popped Option<(Id<T>, T)>.
pop(self) ==
    [self   |-> pop_back_unused([self EXCEPT !.elements = VecPop(@)]),
     popped |-> IF Len(self.elements) = 0 THEN None
                ELSE Some(<<Len(VecPop(self.elements)),
                            self.elements[Len(self.elements)]>>)]

\* insert that overwrites the unused slot but leaves its index in the set.
insert_keeps_unused(self, element, previously_unused_index) ==
    IF previously_unused_index # None
    THEN [self |-> [self EXCEPT !.elements[previously_unused_index[1] + 1] = element],
          id   |-> previously_unused_index[1]]
    ELSE [self |-> [self EXCEPT !.elements = Append(@, element)],
          id   |-> Len(Append(self.elements, element)) - 1]

\* insert that never reuses an unused slot.
insert_always_appends(self, element, previously_unused_index) ==
    [self |-> [self EXCEPT !.elements = Append(@, element)],
     id   |-> Len(Append(self.elements, element)) - 1]

\* insert returns the new IdVec and the Id. previously_unused_index is what
\* `unused_indices.iter().next()` produced: None, or Some(any member).
insert(self, element, previously_unused_index) ==
    IF previously_unused_index # None
    THEN [self |-> [elements |-> [self.elements EXCEPT
                                    ![previously_unused_index[1] + 1] = element],
                    unused_indices |->
                        self.unused_indices \ {previously_unused_index[1]}],
          id   |-> previously_unused_index[1]]
    ELSE [self |-> [self EXCEPT !.elements = Append(@, element)],
          id   |-> Len(Append(self.elements, element)) - 1]

\* What `unused_indices.iter().next()` may produce for a HashSet.
iter_next_of(set) == IF set = {} THEN {None} ELSE {Some(i) : i \in set}

\* get that looks into the vector without asking whether the index is used.
get_unchecked(self, element) ==
    IF element < Len(self.elements)
    THEN Some(self.elements[element + 1]) ELSE None

get(self, element) ==
    IF index_is_currently_used(self, element)
    THEN IF element < Len(self.elements)
         THEN Some(self.elements[element + 1]) ELSE None
    ELSE None

\* get_mut: the element the returned `&mut T` points to.
get_mut(self, element) ==
    IF index_is_currently_used(self, element)
    THEN IF element < Len(self.elements)
         THEN Some(self.elements[element + 1]) ELSE None
    ELSE None

\* swap_elements that copies the second element over the first.
swap_elements_copies(self, id1, id2) ==
    [self EXCEPT !.elements = [@ EXCEPT ![id1 + 1] = self.elements[id2 + 1]]]

swap_elements(self, id1, id2) ==
    [self EXCEPT !.elements = VecSwap(@, id1, id2)]

\* The predicates handed to retain: predicate(id, element) holds when the id
\* is one of `ids` or the element is one of `vals`. The closures drawn test
\* the id alone or the element alone (as the one of test_retain does).
Predicates ==
    {[ids |-> i, vals |-> {}] : i \in SUBSET (0 .. (MaxLen - 1))}
    \cup {[ids |-> {}, vals |-> v] : v \in SUBSET Values}

call_predicate(predicate, id, element) ==
    id \in predicate.ids \/ element \in predicate.vals

\* retain_loop with the predicate negated: marks what the predicate rejects.
RECURSIVE retain_loop_marks_rejected(_, _, _)
retain_loop_marks_rejected(self, predicate, index) ==
    IF index >= Len(self.elements) THEN self
    ELSE retain_loop_marks_rejected(
            IF index \notin self.unused_indices
               /\ ~call_predicate(predicate, index, self.elements[index + 1])
            THEN [self EXCEPT !.unused_indices = @ \cup {index}]
            ELSE self,
            predicate, index + 1)

\* The body of retain's `for index in 0..self.elements.len()`, from `index`.
RECURSIVE retain_loop(_, _, _)
retain_loop(self, predicate, index) ==
    IF index >= Len(self.elements) THEN self
    ELSE retain_loop(
            IF index \notin self.unused_indices
               /\ call_predicate(predicate, index, self.elements[index + 1])
            THEN [self EXCEPT !.unused_indices = @ \cup {index}]
            ELSE self,
            predicate, index + 1)

retain(self, predicate) == pop_back_unused(retain_loop(self, predicate, 0))

\* The loop of pack_pop_guarded written as do-while: it pops once before it
\* first looks at the set.
RECURSIVE pack_pop_guarded_rest(_)
pack_pop_guarded_rest(st) ==
    IF Len(st.elements) # 0 /\ (Len(st.elements) - 1) \in st.unused_indices
    THEN pack_pop_guarded_rest(
            [st EXCEPT !.elements = VecPop(@),
                       !.unused_indices = @ \ {Len(st.elements) - 1}])
    ELSE st

pack_pop_guarded_pops_first(st) ==
    pack_pop_guarded_rest([st EXCEPT !.elements = VecPop(@)])

\* pack_pop_guarded with `contains` in place of `remove`.
RECURSIVE pack_pop_guarded_keeps_index(_)
pack_pop_guarded_keeps_index(st) ==
    IF Len(st.elements) # 0 /\ (Len(st.elements) - 1) \in st.unused_indices
    THEN pack_pop_guarded_keeps_index([st EXCEPT !.elements = VecPop(@)])
    ELSE st

\* pack, `while unused_indices.remove(&(self.elements.len() - 1))`:
\* st is [elements, unused_indices, failed] with unused_indices the local set.
RECURSIVE pack_pop_guarded(_)
pack_pop_guarded(st) ==
    IF Len(st.elements) = 0
    THEN [st EXCEPT !.failed = @ \cup {"attempt to subtract with overflow"}]
    ELSE IF (Len(st.elements) - 1) \in st.unused_indices
         THEN pack_pop_guarded(
                [st EXCEPT !.elements = VecPop(@),
                           !.unused_indices = @ \ {Len(st.elements) - 1}])
         ELSE st

\* pack_iteration without `self.elements.pop()` after the swap.
pack_iteration_no_pop(elems, local_unused, unused_index) ==
    IF unused_index < Len(elems)
    THEN [elements |-> VecSwap(elems, Len(elems) - 1, unused_index),
          unused_indices |-> local_unused \ {unused_index},
          remap |-> Some(<<Len(elems) - 1, unused_index>>),
          failed |-> {}]
    ELSE [elements |-> elems, unused_indices |-> local_unused,
          remap |-> None, failed |-> {}]

\* pack_iteration that pops the last element without moving it first.
pack_iteration_no_swap(elems, local_unused, unused_index) ==
    IF unused_index < Len(elems)
    THEN LET popped == pack_pop_guarded_rest(
                 [elements |-> VecPop(elems),
                  unused_indices |-> local_unused \ {unused_index},
                  failed |-> {}])
         IN  [elements |-> popped.elements,
              unused_indices |-> popped.unused_indices,
              remap |-> Some(<<Len(elems) - 1, unused_index>>),
              failed |-> popped.failed]
    ELSE [elements |-> elems, unused_indices |-> local_unused,
          remap |-> None, failed |-> {}]

\* pack_iteration calling remap(new, old).
pack_iteration_swapped_args(elems, local_unused, unused_index) ==
    IF unused_index < Len(elems)
    THEN LET popped == pack_pop_guarded_rest(
                 [elements |-> VecPop(VecSwap(elems, Len(elems) - 1, unused_index)),
                  unused_indices |-> local_unused \ {unused_index},
                  failed |-> {}])
         IN  [elements |-> popped.elements,
              unused_indices |-> popped.unused_indices,
              remap |-> Some(<<unused_index, Len(elems) - 1>>),
              failed |-> popped.failed]
    ELSE [elements |-> elems, unused_indices |-> local_unused,
          remap |-> None, failed |-> {}]

\* pack_iteration that moves the element without calling remap.
pack_iteration_silent(elems, local_unused, unused_index) ==
    IF unused_index < Len(elems)
    THEN LET popped == pack_pop_guarded_rest(
                 [elements |-> VecPop(VecSwap(elems, Len(elems) - 1, unused_index)),
                  unused_indices |-> local_unused \ {unused_index},
                  failed |-> {}])
         IN  [elements |-> popped.elements,
              unused_indices |-> popped.unused_indices,
              remap |-> None,
              failed |-> popped.failed]
    ELSE [elements |-> elems, unused_indices |-> local_unused,
          remap |-> None, failed |-> {}]

\* One turn of pack's `while let Some(&unused_index) = unused_indices.iter().next()`.
\* Yields the vector, the local set, the remap call made (an Option) and the
\* assertions that fired.
pack_iteration(elems, local_unused, unused_index) ==
    IF unused_index < Len(elems)
    THEN LET last_used_element_index == Len(elems) - 1
             popped == pack_pop_guarded(
                 [elements |-> VecPop(VecSwap(elems, last_used_element_index,
                                              unused_index)),
                  unused_indices |-> local_unused \ {unused_index},
                  failed |-> IF unused_index # last_used_element_index THEN {}
                             ELSE {"Last element of IdMap is not used"}])
         IN  [elements |-> popped.elements,
              unused_indices |-> popped.unused_indices,
              remap |-> Some(<<last_used_element_index, unused_index>>),
              failed |-> popped.failed]
    ELSE [elements |-> elems, unused_indices |-> local_unused,
          remap |-> None, failed |-> {}]

\* A skip loop that passes the index of a deleted element but leaves the
\* element in the inner iterator.
RECURSIVE drain_skip_keeps_element(_, _)
drain_skip_keeps_element(it, unused_ids) ==
    IF it.next_index \in unused_ids
    THEN drain_skip_keeps_element([it EXCEPT !.next_index = @ + 1],
                                  unused_ids \ {it.next_index})
    ELSE [it |-> it, unused_ids |-> unused_ids, failed |-> {}]

\* DrainElements::next on the iterator `it` and the borrowed set `unused_ids`:
\* first the loop that skips deleted elements, then the element.
RECURSIVE drain_skip(_, _)
drain_skip(it, unused_ids) ==
    IF it.next_index \in unused_ids
    THEN IF Len(it.iter) = 0
         THEN [it |-> it, unused_ids |-> unused_ids \ {it.next_index},
               failed |-> {"called Option::unwrap() on a None value"}]
         ELSE drain_skip([it EXCEPT !.next_index = @ + 1, !.iter = Tail(@)],
                         unused_ids \ {it.next_index})
    ELSE [it |-> it, unused_ids |-> unused_ids, failed |-> {}]

drain_next(it, unused_ids) ==
    LET skipped == drain_skip(it, unused_ids)
    IN  IF skipped.failed # {}
        THEN [it |-> skipped.it, unused_ids |-> skipped.unused_ids,
              item |-> None, failed |-> skipped.failed]
        ELSE IF skipped.it.next_index < skipped.it.exclusive_max_index
        THEN IF Len(skipped.it.iter) = 0
             THEN [it |-> skipped.it, unused_ids |-> skipped.unused_ids,
                   item |-> None,
                   failed |-> {"called Option::unwrap() on a None value"}]
             ELSE [it |-> [skipped.it EXCEPT !.next_index = @ + 1,
                                             !.iter = Tail(@)],
                   unused_ids |-> skipped.unused_ids,
                   item |-> Some(Head(skipped.it.iter)), failed |-> {}]
        ELSE [it |-> skipped.it, unused_ids |-> skipped.unused_ids,
              item |-> None, failed |-> {}]

\* IdVec::into_elements: the IntoElements that owns the elements and the
\* unused indices of `self`.
into_elements(self) ==
    [it |-> [iter |-> self.elements, exclusive_max_index |-> Len(self.elements),
             next_index |-> 0],
     unused_ids |-> self.unused_indices]

\* IntoElements::next. Its body is the body of DrainElements::next, on the
\* set the iterator owns.
IntoElements_next(into) ==
    LET r == drain_next(into.it, into.unused_ids)
    IN  [into |-> [it |-> r.it, unused_ids |-> r.unused_ids],
         item |-> r.item, failed |-> r.failed]

\* Iterator::collect on an IntoElements: next() until it returns None.
RECURSIVE IntoElements_collect(_)
IntoElements_collect(into) ==
    LET r == IntoElements_next(into)
    IN  IF r.item = None \/ r.failed # {}
        THEN [items |-> <<>>, failed |-> r.failed]
        ELSE LET rest == IntoElements_collect(r.into)
             IN  [items |-> r.item \o rest.items, failed |-> rest.failed]

\* pop_element: `self.pop().map(|(_, element)| element)`.
pop_element(self) ==
    [self |-> pop(self).self,
     popped |-> IF pop(self).popped = None THEN None
                ELSE Some(pop(self).popped[1][2])]

\* pop_element() until it returns None: the elements it returned.
RECURSIVE pop_elements(_)
pop_elements(self) ==
    LET r == pop_element(self)
    IN  IF r.popped = None THEN <<>>
        ELSE r.popped \o pop_elements(r.self)

\* A drop that leaves the unused indices of the IdVec as next() left them.
DrainElements_drop_keeps_unused(unused_ids) == unused_ids

\* Drop for DrainElements, `self.unused_ids.clear()`: the set after the drop.
DrainElements_drop(unused_ids) == {}

\* iter_next, `while front < back && unused_ids.contains(front)`: the front
\* index after the loop.
RECURSIVE iter_next_skip(_, _, _)
iter_next_skip(inclusive_front_index, exclusive_back_index, unused_ids) ==
    IF inclusive_front_index < exclusive_back_index
       /\ inclusive_front_index \in unused_ids
    THEN iter_next_skip(inclusive_front_index + 1, exclusive_back_index, unused_ids)
    ELSE inclusive_front_index

\* iter_next that consumes the front index without skipping unused ones.
iter_next_no_skip(inclusive_front_index, exclusive_back_index, unused_ids) ==
    [inclusive_front_index |-> inclusive_front_index + 1,
     exclusive_back_index  |-> exclusive_back_index,
     item |-> IF inclusive_front_index < exclusive_back_index
              THEN Some(inclusive_front_index) ELSE None]

\* iter_next reading the unused indices of the IdVec instead of its own set.
iter_next_live_set(inclusive_front_index, exclusive_back_index, unused_ids) ==
    LET index == iter_next_skip(inclusive_front_index, exclusive_back_index,
                                unused_indices)
    IN  [inclusive_front_index |-> index + 1,
         exclusive_back_index  |-> exclusive_back_index,
         item |-> IF index < exclusive_back_index THEN Some(index) ELSE None]

\* iter_next yields the two cursors after the call and the Option<Index>.
iter_next(inclusive_front_index, exclusive_back_index, unused_ids) ==
    LET index == iter_next_skip(inclusive_front_index, exclusive_back_index,
                                unused_ids)
    IN  [inclusive_front_index |-> index + 1,
         exclusive_back_index  |-> exclusive_back_index,
         item |-> IF index < exclusive_back_index THEN Some(index) ELSE None]

\* iter_next_back, `while back > front && unused_ids.contains(back - 1)`: the
\* back index after the loop.
RECURSIVE iter_next_back_skip(_, _, _)
iter_next_back_skip(inclusive_front_index, exclusive_back_index, unused_ids) ==
    IF exclusive_back_index > inclusive_front_index
       /\ (exclusive_back_index - 1) \in unused_ids
    THEN iter_next_back_skip(inclusive_front_index, exclusive_back_index - 1,
                             unused_ids)
    ELSE exclusive_back_index

\* iter_next_back that consumes the back index without skipping unused ones.
iter_next_back_no_skip(inclusive_front_index, exclusive_back_index, unused_ids) ==
    IF exclusive_back_index > inclusive_front_index
    THEN [inclusive_front_index |-> inclusive_front_index,
          exclusive_back_index  |-> exclusive_back_index - 1,
          item |-> Some(exclusive_back_index - 1)]
    ELSE [inclusive_front_index |-> inclusive_front_index,
          exclusive_back_index  |-> exclusive_back_index,
          item |-> None]

\* iter_next_back that skips and consumes down to index 0, whatever the front
\* index is.
iter_next_back_ignores_front(inclusive_front_index, exclusive_back_index, unused_ids) ==
    LET back == iter_next_back_skip(0, exclusive_back_index, unused_ids)
    IN  IF back > 0
        THEN [inclusive_front_index |-> inclusive_front_index,
              exclusive_back_index  |-> back - 1,
              item |-> Some(back - 1)]
        ELSE [inclusive_front_index |-> inclusive_front_index,
              exclusive_back_index  |-> back,
              item |-> None]

\* iter_next_back yields the two cursors after the call and the Option<Index>.
iter_next_back(inclusive_front_index, exclusive_back_index, unused_ids) ==
    LET back == iter_next_back_skip(inclusive_front_index, exclusive_back_index,
                                    unused_ids)
    IN  IF back > inclusive_front_index
        THEN [inclusive_front_index |-> inclusive_front_index,
              exclusive_back_index  |-> back - 1,
              item |-> Some(back - 1)]
        ELSE [inclusive_front_index |-> inclusive_front_index,
              exclusive_back_index  |-> back,
              item |-> None]

\* IdVec::iter: the Iter over `self`, as its two cursors.
iter(self) ==
    [inclusive_front_index |-> 0, exclusive_back_index |-> Len(self.elements)]

\* `(id, &self.storage[id])` of Iter::next and Iter::next_back: the item for
\* the Option<Index> `found`, with the assertion of Index::index.
iter_item(self, found) ==
    IF found = None THEN [item |-> None, failed |-> {}]
    ELSE [item   |-> IF found[1] < Len(self.elements)
                     THEN Some(<<found[1], self.elements[found[1] + 1]>>)
                     ELSE None,
          failed |-> IF contains_id(self, found[1]) THEN {}
                     ELSE {"Indexing with invalid Id"}]

\* Iter::next: the iterator after the call, the Option<(Id<T>, &T)> and the
\* assertions that fired.
Iter_next(it, self) ==
    LET r == iter_next(it.inclusive_front_index, it.exclusive_back_index,
                       self.unused_indices)
    IN  [it |-> [inclusive_front_index |-> r.inclusive_front_index,
                 exclusive_back_index  |-> r.exclusive_back_index],
         item   |-> iter_item(self, r.item).item,
         failed |-> iter_item(self, r.item).failed]

\* Iter::next_back.
Iter_next_back(it, self) ==
    LET r == iter_next_back(it.inclusive_front_index, it.exclusive_back_index,
                            self.unused_indices)
    IN  [it |-> [inclusive_front_index |-> r.inclusive_front_index,
                 exclusive_back_index  |-> r.exclusive_back_index],
         item   |-> iter_item(self, r.item).item,
         failed |-> iter_item(self, r.item).failed]

\* Iterator::collect on an Iter: next() until it returns None.
RECURSIVE collect(_, _)
collect(it, self) ==
    LET r == Iter_next(it, self)
    IN  IF r.item = None \/ r.failed # {}
        THEN [items |-> <<>>, failed |-> r.failed]
        ELSE LET rest == collect(r.it, self)
             IN  [items |-> r.item \o rest.items, failed |-> rest.failed]

\* Iterator::rev().collect() on an Iter: next_back() until it returns None.
RECURSIVE rev_collect(_, _)
rev_collect(it, self) ==
    LET r == Iter_next_back(it, self)
    IN  IF r.item = None \/ r.failed # {}
        THEN [items |-> <<>>, failed |-> r.failed]
        ELSE LET rest == rev_collect(r.it, self)
             IN  [items |-> r.item \o rest.items, failed |-> rest.failed]

\* IdVec::elements and IdVec::ids, collected: the second and the first
\* component of what Iter yields.
ElementIter_collect(self) ==
    LET items == collect(iter(self), self).items
    IN  [i \in 1 .. Len(items) |-> items[i][2]]

IdIter_collect(self) ==
    LET items == collect(iter(self), self).items
    IN  [i \in 1 .. Len(items) |-> items[i][1]]

\* IdVec::get_ids: the OwnedIdIter, with its own clone of the unused indices.
get_ids(self) ==
    [inclusive_front_index |-> 0,
     exclusive_back_index  |-> Len(self.elements),
     unused_ids            |-> self.unused_indices]

\* OwnedIdIter::next: the iterator after the call and the Option<Id<T>>.
OwnedIdIter_next(it) ==
    LET r == iter_next(it.inclusive_front_index, it.exclusive_back_index,
                       it.unused_ids)
    IN  [it   |-> [inclusive_front_index |-> r.inclusive_front_index,
                   exclusive_back_index  |-> r.exclusive_back_index,
                   unused_ids            |-> it.unused_ids],
         item |-> r.item]

\* OwnedIdIter::next_back.
OwnedIdIter_next_back(it) ==
    LET r == iter_next_back(it.inclusive_front_index, it.exclusive_back_index,
                            it.unused_ids)
    IN  [it   |-> [inclusive_front_index |-> r.inclusive_front_index,
                   exclusive_back_index  |-> r.exclusive_back_index,
                   unused_ids            |-> it.unused_ids],
         item |-> r.item]

\* Iterator::zip(a, b) on two collected iterators: the pairs up to the end of
\* the shorter one.
zip(a, b) ==
    [i \in 1 .. (IF Len(a) <= Len(b) THEN Len(a) ELSE Len(b)) |-> <<a[i], b[i]>>]

\* An eq that compares the elements and not the ids they have.
eq_ignores_ids(self, other_vec) ==
    /\ len(self) = len(other_vec)
    /\ LET pairs == zip(collect(iter(self), self).items,
                        collect(iter(other_vec), other_vec).items)
       IN  \A i \in 1 .. Len(pairs) : pairs[i][1][2] = pairs[i][2][2]

\* PartialEq for IdVec: eq.
eq(self, other_vec) ==
    /\ len(self) = len(other_vec)
    /\ LET pairs == zip(collect(iter(self), self).items,
                        collect(iter(other_vec), other_vec).items)
       IN  \A i \in 1 .. Len(pairs) :
              /\ pairs[i][1][1] = pairs[i][2][1]
              /\ pairs[i][1][2] = pairs[i][2][2]

\* find_id_of_element that scans the backing vector, removed elements too.
find_id_of_element_in_vec(self, element) ==
    LET found == {i \in 1 .. Len(self.elements) : self.elements[i] = element}
    IN  IF found = {} THEN None
        ELSE Some((CHOOSE i \in found : \A j \in found : i <= j) - 1)

\* find_id_of_element: `self.iter().find(|&(_, e)| element == e)`, the id of
\* the first pair of the iteration with this element.
find_id_of_element(self, element) ==
    LET items == collect(iter(self), self).items
        found == {i \in 1 .. Len(items) : items[i][2] = element}
    IN  IF found = {} THEN None
        ELSE Some(items[CHOOSE i \in found : \A j \in found : i <= j][1])

contains_element(self, element) == find_id_of_element(self, element) # None

\* elements_eq.
elements_eq(self, other_vec) ==
    /\ len(self) = len(other_vec)
    /\ \A i \in 1 .. Len(ElementIter_collect(self)) :
          contains_element(other_vec, ElementIter_collect(self)[i])

\* `a - b` on usize in a build with overflow checks: the difference, or the
\* panic of a subtraction that goes below zero.
usize_sub(a, b) ==
    IF a >= b THEN [value |-> Some(a - b), failed |-> {}]
    ELSE [value |-> None, failed |-> {"attempt to subtract with overflow"}]

\* Iter::size_hint, which IdIter::size_hint and ElementIter::size_hint
\* return unchanged: (min_remaining, Some(max_remaining)), or the panic.
Iter_size_hint(it, self) ==
    LET max_remaining == usize_sub(it.exclusive_back_index, it.inclusive_front_index)
        unused_elements == Cardinality(self.unused_indices)
    IN  IF max_remaining.failed # {}
        THEN [hint |-> None, failed |-> max_remaining.failed]
        ELSE [hint |-> Some(<<IF max_remaining.value[1] >= unused_elements
                              THEN max_remaining.value[1] - unused_elements
                              ELSE 0,
                              Some(max_remaining.value[1])>>),
              failed |-> {}]

\* OwnedIdIter::size_hint: the same computation on the iterator's own set.
OwnedIdIter_size_hint(it) ==
    LET max_remaining == usize_sub(it.exclusive_back_index, it.inclusive_front_index)
        unused_elements == Cardinality(it.unused_ids)
    IN  IF max_remaining.failed # {}
        THEN [hint |-> None, failed |-> max_remaining.failed]
        ELSE [hint |-> Some(<<IF max_remaining.value[1] >= unused_elements
                              THEN max_remaining.value[1] - unused_elements
                              ELSE 0,
                              Some(max_remaining.value[1])>>),
              failed |-> {}]

\* A size_hint that counts the slots left and not the unused ones among them.
DrainElements_size_hint_counts_slots(it, unused_ids) ==
    LET elements_left == usize_sub(it.exclusive_max_index, it.next_index)
    IN  IF elements_left.failed # {} THEN [hint |-> None, failed |-> elements_left.failed]
        ELSE [hint |-> Some(<<elements_left.value[1], Some(elements_left.value[1])>>),
              failed |-> {}]

\* DrainElements::size_hint: (used, Some(used)), or the panic of one of the
\* two subtractions.
DrainElements_size_hint(it, unused_ids) ==
    LET elements_left == usize_sub(it.exclusive_max_index, it.next_index)
    IN  IF elements_left.failed # {} THEN [hint |-> None, failed |-> elements_left.failed]
        ELSE LET used == usize_sub(elements_left.value[1], Cardinality(unused_ids))
             IN  IF used.failed # {} THEN [hint |-> None, failed |-> used.failed]
                 ELSE [hint |-> Some(<<used.value[1], Some(used.value[1])>>),
                       failed |-> {}]

\* IntoElements::size_hint. Its body is the body of DrainElements::size_hint,
\* on the set the iterator owns.
IntoElements_size_hint(into) == DrainElements_size_hint(into.it, into.unused_ids)

----------------------------------------------------------------------------
\* HashSetElementMarker (element_marker/hash_set_marker.rs).
HashSetElementMarker_default == [unused_indices |-> {}]

\* HashSet::remove and HashSet::insert return whether the set changed.
HashSetElementMarker_mark_element_used(self, index, used) ==
    IF used
    THEN [self   |-> [unused_indices |-> self.unused_indices \ {index}],
          result |-> index \in self.unused_indices]
    ELSE [self   |-> [unused_indices |-> self.unused_indices \cup {index}],
          result |-> index \notin self.unused_indices]

HashSetElementMarker_element_is_used(self, index) ==
    index \notin self.unused_indices

\* unused_elements: the indices the iterator over the cloned set yields.
HashSetElementMarker_unused_elements(self) == self.unused_indices

HashSetElementMarker_unused_element_count(self) ==
    Cardinality(self.unused_indices)

\* BitVecElementMarker (element_marker/bit_vec_marker.rs). A BitVec is a
\* sequence of booleans; BitVec::get is None beyond its length.
BitVecElementMarker_default == [used_indices |-> <<>>, unused_elements_len |-> 0]

BitVecElementMarker_element_is_used(self, index) ==
    IF index < Len(self.used_indices) THEN self.used_indices[index + 1] ELSE FALSE

\* `while self.used_indices.len() < index - 1 { self.used_indices.push(false) }`
RECURSIVE BitVecElementMarker_push_loop(_, _)
BitVecElementMarker_push_loop(used_indices, index) ==
    IF Len(used_indices) < index - 1
    THEN BitVecElementMarker_push_loop(Append(used_indices, FALSE), index)
    ELSE used_indices

\* mark_element_used: the marker after the call, the result, and the panic of
\* `index - 1` for index 0 or of the assertion `index < len`.
BitVecElementMarker_mark_element_used(self, index, mark_used) ==
    LET was_used_before == BitVecElementMarker_element_is_used(self, index)
    IN  IF mark_used = was_used_before
        THEN [self |-> self, result |-> Some(was_used_before), failed |-> {}]
        ELSE IF usize_sub(index, 1).failed # {}
        THEN [self |-> self, result |-> None, failed |-> usize_sub(index, 1).failed]
        ELSE LET pushed == BitVecElementMarker_push_loop(self.used_indices, index)
             IN  IF index < Len(pushed)
                 THEN [self   |-> [self EXCEPT !.used_indices =
                                      [pushed EXCEPT ![index + 1] = mark_used]],
                       result |-> Some(was_used_before), failed |-> {}]
                 ELSE [self   |-> [self EXCEPT !.used_indices = pushed],
                       result |-> None,
                       failed |-> {"BitVecMarker has not enough bits"}]

\* ClonedBitVecMarkerIter::next until None, from the index `next`: the
\* indices whose bit is false.
RECURSIVE ClonedBitVecMarkerIter_collect(_, _)
ClonedBitVecMarkerIter_collect(used_element_bits, next) ==
    IF next < Len(used_element_bits)
    THEN IF used_element_bits[next + 1]
         THEN ClonedBitVecMarkerIter_collect(used_element_bits, next + 1)
         ELSE {next} \cup ClonedBitVecMarkerIter_collect(used_element_bits, next + 1)
    ELSE {}

\* unused_elements: the indices the iterator over the cloned bits yields.
BitVecElementMarker_unused_elements(self) ==
    ClonedBitVecMarkerIter_collect(self.used_indices, 0)

BitVecElementMarker_unused_element_count(self) == self.unused_elements_len

----------------------------------------------------------------------------
\* The IdVec as one value, and the records of the history variables.
Self == [elements |-> elements, unused_indices |-> unused_indices]

\* Fillers for the fields a call does not use: no handle of Ids, no value of Values.
NoId == MaxLen + 1
NoValue == NumValues
NoPredicate == [ids |-> {}, vals |-> {}]
NoDrain == [iter |-> <<>>, exclusive_max_index |-> 0, next_index |-> 0]

\* The two markers as Default::default() makes them, before any call.
\* `marked` tells for every index the flag it was last marked with, `call` the
\* most recent mark_element_used with what element_is_used said before it and
\* what each marker returned, `failed` the panic of a call.
NoMarkerCall ==
    [hash_set |-> HashSetElementMarker_default,
     bit_vec  |-> BitVecElementMarker_default,
     marked   |-> [i \in Ids |-> "never"],
     call     |-> [op |-> "default", index |-> NoId, used |-> FALSE,
                   hash_set_before |-> FALSE, bit_vec_before |-> FALSE,
                   hash_set_result |-> FALSE, bit_vec_result |-> FALSE],
     failed   |-> {}]

\* No Iter borrows the IdVec.
NoIter ==
    [inclusive_front_index |-> 0, exclusive_back_index |-> 0,
     yielded |-> {}, twice |-> FALSE, ended |-> FALSE, revived |-> FALSE]

\* The borrowed iterator after a call of next() or next_back() that left the
\* cursors `it` and returned `item`. Beside the cursors the variable keeps
\* what the calls returned so far: `yielded`, the handles returned; `twice`,
\* a handle was returned a second time; `ended`, a call returned None;
\* `revived`, a call returned an item after a call had returned None.
IterAfter(before, it, item) ==
    [inclusive_front_index |-> it.inclusive_front_index,
     exclusive_back_index  |-> it.exclusive_back_index,
     yielded |-> IF item = None THEN before.yielded
                 ELSE before.yielded \cup {item[1][1]},
     twice   |-> before.twice \/ (item # None /\ item[1][1] \in before.yielded),
     ended   |-> before.ended \/ item = None,
     revived |-> before.revived \/ (before.ended /\ item # None)]

\* The caller holds no OwnedIdIter. Besides the fields of the struct the record
\* keeps what the claims about it speak of: `created`, the handles alive when
\* get_ids was called; `yielded`, the handles next() returned so far;
\* `exhausted`, next() returned None; `interleaved`, the IdVec was changed
\* between two calls of next(); `revived`, a call returned a handle after a
\* call had returned None.
NoOwnedIdIter ==
    [live |-> FALSE, inclusive_front_index |-> 0, exclusive_back_index |-> 0,
     unused_ids |-> {}, created |-> {}, yielded |-> <<>>, exhausted |-> FALSE,
     interleaved |-> FALSE, revived |-> FALSE]

Call(op, id, id2, val, out, predicate) ==
    [op |-> op, pre |-> Self, id |-> id, id2 |-> id2, val |-> val,
     out |-> out, predicate |-> predicate]

\* What `prev` keeps of a call: whether it removed a valid handle from a
\* packed IdVec, and which handle.
Summary(call) ==
    IF call.op = "remove" /\ is_packed(call.pre) /\ contains_id(call.pre, call.id)
    THEN [op |-> "remove", id |-> call.id]
    ELSE [op |-> "other", id |-> NoId]

Init ==
    /\ elements \in UNION {[1 .. n -> Values] : n \in 0 .. MaxLen}
    /\ unused_indices = {}
    /\ pc = "idle"
    /\ pack_unused = {}
    /\ remaps = <<>>
    /\ drain = NoDrain
    /\ failed = {}
    /\ last = [op |-> "from_vec", pre |-> from_vec(elements), id |-> NoId,
               id2 |-> NoId, val |-> NoValue, out |-> None,
               predicate |-> NoPredicate]
    /\ prev = [op |-> "other", id |-> NoId]
    /\ owned_id_iter = NoOwnedIdIter
    /\ borrowed_iter = NoIter
    /\ other = from_vec(<<>>)
    /\ markers = NoMarkerCall

Idle == pc = "idle" /\ failed = {}

Insert ==
    /\ Idle
    /\ \E element \in Values, previously_unused_index \in iter_next_of(unused_indices) :
          /\ previously_unused_index = None => Len(elements) < MaxLen
          /\ LET r == insert(Self, element, previously_unused_index)
             IN  /\ elements' = r.self.elements
                 /\ unused_indices' = r.self.unused_indices
                 /\ failed' = failed
                        \cup (IF previously_unused_index = None THEN {}
                              ELSE debug_assert_id_validity(
                                      Self, previously_unused_index[1], FALSE))
                        \cup debug_assert_last_element_is_used(r.self)
                        \cup debug_assert_id_validity(r.self, r.id, TRUE)
                 /\ last' = Call("insert", r.id, NoId, element, None, NoPredicate)
    /\ prev' = Summary(last)
    /\ remaps' = <<>>
    /\ UNCHANGED <<pc, pack_unused, drain, owned_id_iter, borrowed_iter, other, markers>>

Remove ==
    /\ Idle
    /\ \E element \in Ids :
          LET r == remove(Self, element)
          IN  /\ elements' = r.elements
              /\ unused_indices' = r.unused_indices
              /\ failed' = failed
                     \cup debug_assert_last_element_is_used(Self)
                     \cup debug_assert_id_validity(r, element, FALSE)
                     \cup debug_assert_last_element_is_used(r)
              /\ last' = Call("remove", element, NoId, NoValue, None, NoPredicate)
    /\ prev' = Summary(last)
    /\ remaps' = <<>>
    /\ UNCHANGED <<pc, pack_unused, drain, owned_id_iter, borrowed_iter, other, markers>>

Pop ==
    /\ Idle
    /\ LET r == pop(Self)
       IN  /\ elements' = r.self.elements
           /\ unused_indices' = r.self.unused_indices
           /\ failed' = failed
                  \cup debug_assert_last_element_is_used(Self)
                  \cup debug_assert_last_element_is_used(r.self)
           /\ last' = Call("pop", NoId, NoId, NoValue, r.popped, NoPredicate)
    /\ prev' = Summary(last)
    /\ remaps' = <<>>
    /\ UNCHANGED <<pc, pack_unused, drain, owned_id_iter, borrowed_iter, other, markers>>

\* The assertions are those of a build with debug assertions: a call whose
\* assertion fails panics before it changes anything, and nothing runs after.
SwapElements ==
    /\ Idle
    /\ \E id1 \in Ids, id2 \in Ids :
          LET asserts == debug_assert_id_validity(Self, id1, TRUE)
                         \cup debug_assert_id_validity(Self, id2, TRUE)
              r == IF asserts = {} THEN swap_elements(Self, id1, id2) ELSE Self
          IN  /\ elements' = r.elements
              /\ unused_indices' = r.unused_indices
              /\ failed' = failed \cup asserts
              /\ last' = Call("swap_elements", id1, id2, NoValue, None, NoPredicate)
    /\ prev' = Summary(last)
    /\ remaps' = <<>>
    /\ UNCHANGED <<pc, pack_unused, drain, owned_id_iter, borrowed_iter, other, markers>>

Clear ==
    /\ Idle
    /\ elements' = clear(Self).elements
    /\ unused_indices' = clear(Self).unused_indices
    /\ failed' = failed \cup (IF is_empty(clear(Self)) THEN {}
                              ELSE {"assertion failed: self.is_empty()"})
    /\ last' = Call("clear", NoId, NoId, NoValue, None, NoPredicate)
    /\ prev' = Summary(last)
    /\ remaps' = <<>>
    /\ UNCHANGED <<pc, pack_unused, drain, owned_id_iter, borrowed_iter, other, markers>>

Retain ==
    /\ Idle
    /\ \E predicate \in Predicates :
          LET r == retain(Self, predicate)
          IN  /\ elements' = r.elements
              /\ unused_indices' = r.unused_indices
              /\ failed' = failed \cup debug_assert_last_element_is_used(r)
              /\ last' = Call("retain", NoId, NoId, NoValue, None, predicate)
    /\ prev' = Summary(last)
    /\ remaps' = <<>>
    /\ UNCHANGED <<pc, pack_unused, drain, owned_id_iter, borrowed_iter, other, markers>>

\* pack: `mem::replace(&mut self.unused_indices, HashSet::new())`.
\* While pack runs, last.out tells for each slot of the vector the index its
\* element had when pack was called.
PackBegin ==
    /\ Idle
    /\ pc' = "pack"
    /\ pack_unused' = unused_indices
    /\ unused_indices' = {}
    /\ remaps' = <<>>
    /\ last' = Call("pack", NoId, NoId, NoValue,
                    [i \in 1 .. Len(elements) |-> i - 1], NoPredicate)
    /\ prev' = Summary(last)
    /\ UNCHANGED <<elements, drain, failed, owned_id_iter, borrowed_iter, other, markers>>

\* pack: one turn of the while loop, for any element the set's iterator may
\* produce first.
PackIteration ==
    /\ pc = "pack" /\ failed = {}
    /\ \E unused_index \in pack_unused :
          LET r == pack_iteration(elements, pack_unused, unused_index)
          IN  /\ elements' = r.elements
              /\ pack_unused' = r.unused_indices
              /\ remaps' = IF r.remap = None THEN remaps
                           ELSE Append(remaps, r.remap[1])
              /\ failed' = failed \cup r.failed
              /\ last' = [last EXCEPT !.out =
                              pack_iteration(@, pack_unused, unused_index).elements]
    /\ UNCHANGED <<unused_indices, pc, drain, prev, owned_id_iter, borrowed_iter, other, markers>>

\* pack: the loop has ended; `self.shrink_to_fit()` and return.
PackEnd ==
    /\ pc = "pack" /\ failed = {}
    /\ pack_unused = {}
    /\ pc' = "idle"
    /\ failed' = failed \cup debug_assert_last_element_is_used(Self)
    /\ UNCHANGED <<elements, unused_indices, pack_unused, remaps, drain, last, prev, owned_id_iter, borrowed_iter, other, markers>>

\* drain_elements: `self.elements.drain(..)` takes the elements out of the
\* vector (its length is 0 while the Drain lives and after it is dropped).
DrainBegin ==
    /\ Idle
    /\ pc' = "drain"
    /\ drain' = [iter |-> elements, exclusive_max_index |-> Len(elements),
                 next_index |-> 0]
    /\ elements' = <<>>
    /\ last' = Call("drain_elements", NoId, NoId, NoValue, None, NoPredicate)
    /\ prev' = Summary(last)
    /\ remaps' = <<>>
    /\ UNCHANGED <<unused_indices, pack_unused, failed, owned_id_iter, borrowed_iter, other, markers>>

\* DrainElements::next; the yielded elements are collected in last.out.
DrainNext ==
    /\ pc = "drain" /\ failed = {}
    /\ LET r == drain_next(drain, unused_indices)
       IN  /\ drain' = r.it
           /\ unused_indices' = r.unused_ids
           /\ failed' = failed \cup r.failed
           /\ last' = [last EXCEPT !.out = @ \o r.item]
    /\ UNCHANGED <<elements, pc, pack_unused, remaps, prev, owned_id_iter, borrowed_iter, other, markers>>

\* Drop for DrainElements.
DrainDrop ==
    /\ pc = "drain" /\ failed = {}
    /\ unused_indices' = DrainElements_drop(unused_indices)
    /\ drain' = NoDrain
    /\ pc' = "idle"
    /\ UNCHANGED <<elements, pack_unused, remaps, failed, last, prev, owned_id_iter, borrowed_iter, other, markers>>

Next ==
    \/ Insert
    \/ Remove
    \/ Pop
    \/ SwapElements
    \/ Clear
    \/ Retain
    \/ PackBegin
    \/ PackIteration
    \/ PackEnd
    \/ DrainBegin
    \/ DrainNext
    \/ DrainDrop

Spec == Init /\ [][Next]_vars

\* pack is a loop of a synchronous method: once called it keeps running, so
\* its next turn and its return are taken whenever they are possible.
FairSpec == Spec /\ WF_vars(PackIteration) /\ WF_vars(PackEnd)

----------------------------------------------------------------------------
\* The handles that are alive in an IdVec.
Alive(self) == {h \in Ids : contains_id(self, h)}

\* C1: Invariant I1. If the backing sequence is non-empty its last slot is
\* alive: unused_indices never contains elements.len() - 1, and the debug
\* assertion "Last element is unused" never fails.
I1_LastSlotAlive ==
    /\ Len(elements) # 0 => (Len(elements) - 1) \notin unused_indices
    /\ "Last element is unused" \notin failed

\* C1 witness: remove of the last slot has cascaded over unused slots behind
\* it and stopped at a used one.
I1_Witness ==
    /\ Idle /\ last.op = "remove"
    /\ last.id + 1 = Len(last.pre.elements)
    /\ Len(elements) # 0
    /\ Len(elements) < Len(last.pre.elements) - 1

\* C2: Invariant I2. After every public operation every index in
\* unused_indices is below elements.len(), so elements.len() >=
\* unused_indices.len() and the assertion of len() never fails.
I2_UnusedInRange ==
    /\ pc = "idle" =>
          /\ \A index \in unused_indices : index < Len(elements)
          /\ Len(elements) >= Cardinality(unused_indices)
    /\ "More ids are unused than exist" \notin failed

\* C2 witness: retain has marked slots, the unused tail was popped and an
\* unused index remains.
I2_Witness ==
    /\ Idle /\ last.op = "retain"
    /\ Len(elements) < Len(last.pre.elements)
    /\ unused_indices # {}

\* C3: after every operation len() is the number of handles with contains_id,
\* which are the handles for which get is Some, and is_empty() holds exactly
\* when there is none.
LenCountsAlive ==
    pc = "idle" =>
        /\ len(Self) = Cardinality(Alive(Self))
        /\ \A h \in Ids : contains_id(Self, h) <=> get(Self, h) # None
        /\ is_empty(Self) <=> Alive(Self) = {}

\* C3 witness: a mutating call has returned with both used and unused slots.
LenCountsAlive_Witness ==
    /\ Idle /\ last.op \in {"insert", "remove", "pop", "retain", "pack"}
    /\ unused_indices # {}
    /\ len(Self) >= 2

\* C4: h = insert(v) gives contains_id(h), get(h) = Some(v) and a len() one
\* larger than before.
InsertThenGet ==
    (pc = "idle" /\ last.op = "insert") =>
        /\ contains_id(Self, last.id)
        /\ get(Self, last.id) = Some(last.val)
        /\ len(Self) = len(last.pre) + 1

\* C4 witness: an insert that reused an unused slot holding another value.
InsertThenGet_Witness ==
    /\ Idle /\ last.op = "insert"
    /\ last.id \in last.pre.unused_indices
    /\ last.pre.elements[last.id + 1] # last.val

\* C5: remove(h) of a valid handle h leaves get(h) = None, contains_id(h)
\* false and len() one smaller, for the last slot and for an interior slot.
RemoveThenGet ==
    (pc = "idle" /\ last.op = "remove" /\ contains_id(last.pre, last.id)) =>
        /\ get(Self, last.id) = None
        /\ ~contains_id(Self, last.id)
        /\ len(Self) = len(last.pre) - 1

\* C5 witness: an interior slot was removed.
RemoveThenGet_Witness ==
    /\ Idle /\ last.op = "remove"
    /\ contains_id(last.pre, last.id)
    /\ last.id + 1 < Len(last.pre.elements)

\* C6: remove(h) of an out-of-range or dead handle changes nothing (the
\* sequence, the unused indices, hence len() and every get), and a second
\* remove(h) changes nothing after a first.
RemoveInvalidIsNoOp ==
    /\ (pc = "idle" /\ last.op = "remove" /\ ~contains_id(last.pre, last.id)) =>
          /\ Self = last.pre
          /\ len(Self) = len(last.pre)
          /\ \A g \in Ids : get(Self, g) = get(last.pre, g)
    /\ pc = "idle" =>
          \A h \in Ids : remove(remove(Self, h), h) = remove(Self, h)

\* C6 witness: remove was called with a dead handle that is in range.
RemoveInvalidIsNoOp_Witness ==
    /\ Idle /\ last.op = "remove"
    /\ last.id \in last.pre.unused_indices

\* C7: handles are persistent. For each handle g alive before the call,
\* insert(v) leaves get(g) unchanged, remove(h) with h # g leaves get(g)
\* unchanged, and pop() leaves get(g) unchanged unless it returns g.
HandlesPersistent ==
    pc = "idle" =>
        \A g \in Alive(last.pre) :
            /\ last.op = "insert" => get(Self, g) = get(last.pre, g)
            /\ (last.op = "remove" /\ g # last.id) =>
                  get(Self, g) = get(last.pre, g)
            /\ (last.op = "pop" /\ (last.out = None \/ g # last.out[1][1])) =>
                  get(Self, g) = get(last.pre, g)

\* C7 witness: pop has cascaded over unused slots and a used element remains.
HandlesPersistent_Witness ==
    /\ Idle /\ last.op = "pop"
    /\ Len(elements) # 0
    /\ Len(elements) < Len(last.pre.elements) - 1

\* C8: the index-reuse hazard. In a packed IdVec, remove(h) of a valid h
\* followed at once by insert(v2) returns h, and then contains_id(h) and
\* get(h) = Some(v2).
IndexReuseHazard ==
    (pc = "idle" /\ last.op = "insert" /\ prev.op = "remove") =>
        /\ last.id = prev.id
        /\ contains_id(Self, prev.id)
        /\ get(Self, prev.id) = Some(last.val)

\* C8 witness: an interior handle of a packed IdVec was removed and the next
\* call was an insert.
IndexReuseHazard_Witness ==
    /\ Idle /\ last.op = "insert" /\ prev.op = "remove"
    /\ prev.id + 1 < Len(elements)

\* C9: pop() on a non-empty IdVec returns Some((h, v)) with h the greatest
\* alive handle and v its value, after which contains_id(h) is false and
\* len() is one smaller; on an empty IdVec it returns None and leaves it empty.
PopReturnsHighest ==
    (pc = "idle" /\ last.op = "pop") =>
        IF is_empty(last.pre)
        THEN last.out = None /\ is_empty(Self)
        ELSE /\ last.out # None
             /\ LET h == last.out[1][1]
                    v == last.out[1][2]
                IN  /\ h \in Alive(last.pre)
                    /\ \A g \in Alive(last.pre) : g <= h
                    /\ get(last.pre, h) = Some(v)
                    /\ ~contains_id(Self, h)
                    /\ len(Self) = len(last.pre) - 1

\* C9 witness: pop on an IdVec with unused slots has returned an element.
PopReturnsHighest_Witness ==
    /\ Idle /\ last.op = "pop"
    /\ last.pre.unused_indices # {}
    /\ last.out # None

\* C10: after retain(predicate) the alive (handle, value) pairs are exactly
\* the previously alive pairs for which the predicate returned true.
RetainKeepsSpecified ==
    (pc = "idle" /\ last.op = "retain") =>
        \A g \in Ids :
            /\ contains_id(Self, g) <=>
                  /\ contains_id(last.pre, g)
                  /\ call_predicate(last.predicate, g, last.pre.elements[g + 1])
            /\ contains_id(Self, g) => get(Self, g) = get(last.pre, g)

----------------------------------------------------------------------------
\* The members of a finite set of integers in ascending order.
RECURSIVE Ascending(_)
Ascending(S) ==
    IF S = {} THEN <<>>
    ELSE LET m == CHOOSE x \in S : \A y \in S : x <= y
         IN  <<m>> \o Ascending(S \ {m})

\* The handles alive in `self` that `predicate` rejects.
Rejected(self, predicate) ==
    {g \in Alive(self) : ~call_predicate(predicate, g, self.elements[g + 1])}

PackPostcondition ==
    (pc = "idle" /\ last.op = "pack") =>
        /\ is_packed(Self)
        /\ len(Self) = len(last.pre)
        /\ Len(elements) = len(Self)

\* C12 witness: pack has returned on an IdVec that had two unused slots.
PackPostcondition_Witness ==
    /\ Idle /\ last.op = "pack"
    /\ Cardinality(last.pre.unused_indices) >= 2

\* The handles that pack passed to remap as the old handle.
RenamedByPack == {remaps[i][1] : i \in 1 .. Len(remaps)}

\* C13: every handle that was alive before pack and was never passed to the
\* callback as the old handle is alive after pack, with the same value.
PackKeepsUnrenamed ==
    (pc = "idle" /\ last.op = "pack") =>
        \A h \in Alive(last.pre) \ RenamedByPack :
            /\ contains_id(Self, h)
            /\ get(Self, h) = get(last.pre, h)

\* C13 witness: pack has moved an element and left another where it was.
PackKeepsUnrenamed_Witness ==
    /\ Idle /\ last.op = "pack"
    /\ remaps # <<>>
    /\ Alive(last.pre) \ RenamedByPack # {}

\* The handle that h becomes when the calls remaps[i], remaps[i + 1], ... are
\* applied in order as a renaming, and the number of calls that rename it.
RECURSIVE Follow(_, _, _)
Follow(h, calls, i) ==
    IF i > Len(calls) THEN h
    ELSE Follow(IF calls[i][1] = h THEN calls[i][2] ELSE h, calls, i + 1)

RECURSIVE Hops(_, _, _)
Hops(h, calls, i) ==
    IF i > Len(calls) THEN 0
    ELSE IF calls[i][1] = h THEN 1 + Hops(calls[i][2], calls, i + 1)
         ELSE Hops(h, calls, i + 1)

RECURSIVE SumHops(_)
SumHops(j) ==
    IF j = 0 THEN 0 ELSE Hops(last.out[j], remaps, 1) + SumHops(j - 1)

\* C14, as claimed: every element whose handle after pack differs from its
\* handle before pack causes exactly one callback invocation, with old = its
\* handle before and new = its handle after pack; other elements cause none.
PackOncePerElement ==
    (pc = "idle" /\ last.op = "pack") =>
        \A j \in 0 .. (Len(elements) - 1) :
            LET o == last.out[j + 1]
            IN  IF o # j
                THEN /\ Hops(o, remaps, 1) = 1
                     /\ \E i \in 1 .. Len(remaps) : remaps[i] = <<o, j>>
                ELSE Hops(o, remaps, 1) = 0

\* C14, amended: the callback is invoked exactly once per relocation. The
\* invocations that concern one element form a chain from its handle before
\* pack to its handle after pack (an element can be relocated more than
\* once), every invocation lies on the chain of one element, and an element
\* that is not relocated is named by no invocation.
PackOncePerRelocation ==
    (pc = "idle" /\ last.op = "pack") =>
        /\ \A j \in 0 .. (Len(elements) - 1) :
              LET o == last.out[j + 1]
              IN  /\ o \in Alive(last.pre)
                  /\ elements[j + 1] = last.pre.elements[o + 1]
                  /\ Follow(o, remaps, 1) = j
                  /\ o # j => Hops(o, remaps, 1) >= 1
                  /\ o = j => \A i \in 1 .. Len(remaps) :
                                  remaps[i][1] # o /\ remaps[i][2] # o
        /\ SumHops(Len(elements)) = Len(remaps)

\* C14 witness: pack has relocated one element twice.
PackOncePerRelocation_Witness ==
    /\ Idle /\ last.op = "pack"
    /\ \E i \in 1 .. Len(remaps), k \in 1 .. Len(remaps) :
          i < k /\ remaps[i][2] = remaps[k][1]

\* C15: the shape of every invocation remap(old, new). new is a slot that was
\* dead when pack was called, old is a slot that pack truncates, old # new,
\* and no index is reported twice as old or twice as new.
PackCallbackShape ==
    /\ last.op = "pack" =>
          \A i \in 1 .. Len(remaps) :
              /\ remaps[i][2] \in last.pre.unused_indices
              /\ remaps[i][1] # remaps[i][2]
              /\ \A k \in 1 .. Len(remaps) :
                    k # i => /\ remaps[k][1] # remaps[i][1]
                             /\ remaps[k][2] # remaps[i][2]
    /\ (pc = "idle" /\ last.op = "pack") =>
          \A i \in 1 .. Len(remaps) :
              /\ remaps[i][1] >= Len(elements)
              /\ remaps[i][1] < Len(last.pre.elements)

\* C15 witness: pack has returned after two invocations of the callback.
PackCallbackShape_Witness ==
    /\ Idle /\ last.op = "pack"
    /\ Len(remaps) >= 2

\* C16: pack terminates, for every order in which the dead indices are
\* picked. The loop never holds an index >= elements.len() (which it could
\* pick forever without removing it), `elements.len() - 1` is never evaluated
\* on an empty vector, and every call of pack returns.
PackTerminates ==
    /\ [](pc = "pack" => \A unused_index \in pack_unused :
                              unused_index < Len(elements))
    /\ []("attempt to subtract with overflow" \notin failed)
    /\ (pc = "pack") ~> (pc = "idle")

\* C16 witness: pack has returned although the cascade removed a dead index
\* that the loop had not picked yet.
PackTerminates_Witness ==
    /\ Idle /\ last.op = "pack"
    /\ remaps # <<>>
    /\ Len(remaps) < Cardinality(last.pre.unused_indices)

\* The alive (handle, value) pairs of `self` in ascending handle order.
AlivePairs(self) ==
    LET ids == Ascending(Alive(self))
    IN  [i \in 1 .. Len(ids) |-> <<ids[i], self.elements[ids[i] + 1]>>]

Reverse(seq) == [i \in 1 .. Len(seq) |-> seq[Len(seq) + 1 - i]]

\* C17: forward iteration (iter, ids, elements) yields exactly the alive
\* (handle, value) pairs, each once, in strictly ascending handle order, and
\* never a dead slot.
ForwardIteration ==
    pc = "idle" =>
        /\ collect(iter(Self), Self).failed = {}
        /\ collect(iter(Self), Self).items = AlivePairs(Self)
        /\ IdIter_collect(Self) = Ascending(Alive(Self))
        /\ Len(ElementIter_collect(Self)) = len(Self)

\* C17 witness: an IdVec whose first slot is dead, with two alive slots
\* behind it.
ForwardIteration_Witness ==
    /\ Idle
    /\ 0 \in unused_indices
    /\ len(Self) >= 2

\* C18: calling only next_back() until None yields the reverse of what
\* calling only next() until None yields.
ReverseSymmetry ==
    pc = "idle" =>
        /\ rev_collect(iter(Self), Self).failed = {}
        /\ rev_collect(iter(Self), Self).items
              = Reverse(collect(iter(Self), Self).items)

\* C18 witness: an IdVec with a dead slot between alive ones.
ReverseSymmetry_Witness ==
    /\ Idle
    /\ \E d \in unused_indices : \E h \in Alive(Self) : h < d
    /\ len(Self) >= 2

----------------------------------------------------------------------------
\* The owning handle iterator. The caller takes get_ids() of an IdVec and
\* inserts, removes and pops while it consumes the iterator, as the loop body
\* of test_elements_iter does.

\* let ids = self.get_ids();
GetIds ==
    /\ Idle
    /\ owned_id_iter' =
          [live                  |-> TRUE,
           inclusive_front_index |-> get_ids(Self).inclusive_front_index,
           exclusive_back_index  |-> get_ids(Self).exclusive_back_index,
           unused_ids            |-> get_ids(Self).unused_ids,
           created               |-> Alive(Self),
           yielded               |-> <<>>,
           exhausted             |-> FALSE,
           interleaved           |-> FALSE,
           revived               |-> FALSE]
    /\ UNCHANGED <<elements, unused_indices, pc, pack_unused, remaps, drain,
                   failed, last, prev, borrowed_iter, other, markers>>

\* ids.next(). The front index grows with every call, also with one that
\* returns None: the calls stop with the first None.
OwnedIdIterNext ==
    /\ Idle
    /\ owned_id_iter.live
    /\ ~owned_id_iter.exhausted
    /\ LET r == OwnedIdIter_next(owned_id_iter)
       IN  owned_id_iter' =
             [owned_id_iter EXCEPT
                 !.inclusive_front_index = r.it.inclusive_front_index,
                 !.exclusive_back_index  = r.it.exclusive_back_index,
                 !.unused_ids            = r.it.unused_ids,
                 !.yielded               = @ \o r.item,
                 !.exhausted             = (r.item = None)]
    /\ UNCHANGED <<elements, unused_indices, pc, pack_unused, remaps, drain,
                   failed, last, prev, borrowed_iter, other, markers>>

\* What a call made next to the iterator does to the state: the IdVec becomes
\* `self`, and the iterator notes a change made after one of its next() calls
\* and before its end. These calls are not recorded in last and prev.
BesideIterator(self, asserts) ==
    /\ elements' = self.elements
    /\ unused_indices' = self.unused_indices
    /\ failed' = failed \cup asserts
    /\ owned_id_iter' =
          [owned_id_iter EXCEPT
              !.interleaved = @ \/ (owned_id_iter.yielded # <<>>
                                    /\ ~owned_id_iter.exhausted)]
    /\ UNCHANGED <<pc, pack_unused, remaps, drain, last, prev, borrowed_iter, other, markers>>

\* self.insert(element), next to the iterator.
InsertBesideIterator ==
    /\ Idle
    /\ \E element \in Values, previously_unused_index \in iter_next_of(unused_indices) :
          /\ previously_unused_index = None => Len(elements) < MaxLen
          /\ LET r == insert(Self, element, previously_unused_index)
             IN  BesideIterator(r.self,
                    (IF previously_unused_index = None THEN {}
                     ELSE debug_assert_id_validity(
                             Self, previously_unused_index[1], FALSE))
                    \cup debug_assert_last_element_is_used(r.self)
                    \cup debug_assert_id_validity(r.self, r.id, TRUE))

\* self.remove(element), next to the iterator.
RemoveBesideIterator ==
    /\ Idle
    /\ \E element \in Ids :
          LET r == remove(Self, element)
          IN  BesideIterator(r,
                 debug_assert_last_element_is_used(Self)
                 \cup debug_assert_id_validity(r, element, FALSE)
                 \cup debug_assert_last_element_is_used(r))

\* self.pop(), next to the iterator.
PopBesideIterator ==
    /\ Idle
    /\ LET r == pop(Self)
       IN  BesideIterator(r.self,
              debug_assert_last_element_is_used(Self)
              \cup debug_assert_last_element_is_used(r.self))

\* IdVec::new(): the empty IdVec.
OwnedInit == Init /\ elements = <<>>

OwnedNext ==
    \/ GetIds
    \/ OwnedIdIterNext
    \/ InsertBesideIterator
    \/ RemoveBesideIterator
    \/ PopBesideIterator

OwnedSpec == OwnedInit /\ [][OwnedNext]_vars

\* C19: the owning handle iterator is a snapshot. Whatever insert, remove and
\* pop do to the IdVec next to it, the handles get_ids() has yielded so far
\* are the first of the handles that were alive when get_ids() was called, in
\* ascending order, and once next() has returned None they are all of them.
OwnedIdsSnapshot ==
    owned_id_iter.live =>
        LET all == Ascending(owned_id_iter.created)
            yielded == owned_id_iter.yielded
        IN  /\ Len(yielded) <= Len(all)
            /\ yielded = SubSeq(all, 1, Len(yielded))
            /\ owned_id_iter.exhausted => yielded = all

\* C19 witness: an iterator consumed to its end that yielded two handles,
\* while the IdVec was changed between its next() calls and no longer has the
\* handles it had at get_ids().
OwnedIdsSnapshot_Witness ==
    /\ owned_id_iter.live
    /\ owned_id_iter.exhausted
    /\ owned_id_iter.interleaved
    /\ Len(owned_id_iter.yielded) >= 2
    /\ Alive(Self) # owned_id_iter.created

----------------------------------------------------------------------------
\* C20: drain-and-abort. Once the iterator of drain_elements() is dropped,
\* after any number of next() calls, the IdVec is empty: its backing vector
\* is empty, len() is 0, is_empty() and is_packed() hold, and an insert
\* returns the handle of index 0 for every element.
DrainAndAbort ==
    (Idle /\ last.op = "drain_elements") =>
        /\ elements = <<>>
        /\ len(Self) = 0
        /\ is_empty(Self)
        /\ is_packed(Self)
        /\ \A element \in Values :
              \A previously_unused_index \in iter_next_of(unused_indices) :
                 insert(Self, element, previously_unused_index).id = 0

\* C20 witness: a drain of an IdVec with a dead slot, dropped after it has
\* yielded some but not all of the alive elements.
DrainAndAbort_Witness ==
    /\ Idle
    /\ last.op = "drain_elements"
    /\ last.pre.unused_indices # {}
    /\ Len(last.out) >= 1
    /\ Len(last.out) < len(last.pre)

----------------------------------------------------------------------------
\* The values of the alive handles of `self` below the index `bound`, in
\* ascending handle order.
AliveValuesBelow(self, bound) ==
    LET ids == Ascending({h \in Alive(self) : h < bound})
    IN  [i \in 1 .. Len(ids) |-> self.elements[ids[i] + 1]]

AliveValues(self) == AliveValuesBelow(self, Len(self.elements))

ConsumingByPop ==
    /\ pc = "idle" =>
          IntoElements_collect(into_elements(Self)).items = pop_elements(Self)
    /\ (pc = "drain" /\ drain_next(drain, unused_indices).item = None) =>
          last.out = pop_elements(last.pre)

----------------------------------------------------------------------------
\* The borrowing iterator, step by step. While an Iter lives the IdVec is
\* borrowed and cannot change; the caller calls next() and next_back() in any
\* order, also after they have returned None.

\* let it = self.iter(); the caller holds one iterator at a time.
IterBegin ==
    /\ Idle
    /\ ~owned_id_iter.live
    /\ pc' = "iter"
    /\ borrowed_iter' = [NoIter EXCEPT
          !.inclusive_front_index = iter(Self).inclusive_front_index,
          !.exclusive_back_index  = iter(Self).exclusive_back_index]
    /\ UNCHANGED <<elements, unused_indices, pack_unused, remaps, drain, failed,
                   last, prev, owned_id_iter, other, markers>>

\* it.next(), at most MaxNoneCalls times beyond the end.
IterNext ==
    /\ pc = "iter" /\ failed = {}
    /\ borrowed_iter.inclusive_front_index
          < borrowed_iter.exclusive_back_index + MaxNoneCalls
    /\ borrowed_iter' = IterAfter(borrowed_iter,
                                  Iter_next(borrowed_iter, Self).it,
                                  Iter_next(borrowed_iter, Self).item)
    /\ failed' = failed \cup Iter_next(borrowed_iter, Self).failed
    /\ UNCHANGED <<elements, unused_indices, pc, pack_unused, remaps, drain,
                   last, prev, owned_id_iter, other, markers>>

\* it.next_back().
IterNextBack ==
    /\ pc = "iter" /\ failed = {}
    /\ borrowed_iter' = IterAfter(borrowed_iter,
                                  Iter_next_back(borrowed_iter, Self).it,
                                  Iter_next_back(borrowed_iter, Self).item)
    /\ failed' = failed \cup Iter_next_back(borrowed_iter, Self).failed
    /\ UNCHANGED <<elements, unused_indices, pc, pack_unused, remaps, drain,
                   last, prev, owned_id_iter, other, markers>>

\* The Iter is dropped and the borrow ends.
IterEnd ==
    /\ pc = "iter" /\ failed = {}
    /\ pc' = "idle"
    /\ borrowed_iter' = NoIter
    /\ UNCHANGED <<elements, unused_indices, pack_unused, remaps, drain, failed,
                   last, prev, owned_id_iter, other, markers>>

\* The owned iterator after a call that left the cursors `it` and returned
\* `item`.
OwnedIdIterAfter(before, it, item) ==
    [before EXCEPT
        !.inclusive_front_index = it.inclusive_front_index,
        !.exclusive_back_index  = it.exclusive_back_index,
        !.unused_ids            = it.unused_ids,
        !.yielded               = @ \o item,
        !.exhausted             = @ \/ item = None,
        !.revived               = @ \/ (before.exhausted /\ item # None)]

\* ids.next_back().
OwnedIdIterNextBack ==
    /\ Idle
    /\ owned_id_iter.live
    /\ owned_id_iter' =
          OwnedIdIterAfter(owned_id_iter,
                           OwnedIdIter_next_back(owned_id_iter).it,
                           OwnedIdIter_next_back(owned_id_iter).item)
    /\ UNCHANGED <<elements, unused_indices, pc, pack_unused, remaps, drain,
                   failed, last, prev, borrowed_iter, other, markers>>

\* ids.next() after a call has returned None, at most MaxNoneCalls times
\* beyond the end.
OwnedIdIterNextAfterNone ==
    /\ Idle
    /\ owned_id_iter.live
    /\ owned_id_iter.exhausted
    /\ owned_id_iter.inclusive_front_index
          < owned_id_iter.exclusive_back_index + MaxNoneCalls
    /\ owned_id_iter' =
          OwnedIdIterAfter(owned_id_iter,
                           OwnedIdIter_next(owned_id_iter).it,
                           OwnedIdIter_next(owned_id_iter).item)
    /\ UNCHANGED <<elements, unused_indices, pc, pack_unused, remaps, drain,
                   failed, last, prev, borrowed_iter, other, markers>>

IterNextStep ==
    \/ InsertBesideIterator
    \/ RemoveBesideIterator
    \/ PopBesideIterator
    \/ IterBegin
    \/ IterNext
    \/ IterNextBack
    \/ IterEnd
    \/ GetIds
    \/ OwnedIdIterNext

IterSpec == OwnedInit /\ [][IterNextStep]_vars

----------------------------------------------------------------------------
\* pack with a callback that panics. pack holds the only borrow of the IdVec
\* while it runs, so the state it has at a call of remap is seen by the
\* caller only when the callback panics there and the stack unwinds out of
\* pack: the local set of unused indices is dropped, and the IdVec is left
\* as it was at the call.

\* pack up to and with the call `remap(last_used_element_index, unused_index)`
\* of one turn of the loop: the vector is swapped, nothing is popped yet.
PackRemapPanics ==
    /\ pc = "pack" /\ failed = {}
    /\ \E unused_index \in pack_unused :
          /\ unused_index < Len(elements)
          /\ unused_index # Len(elements) - 1
          /\ elements' = VecSwap(elements, Len(elements) - 1, unused_index)
          /\ remaps' = Append(remaps, <<Len(elements) - 1, unused_index>>)
    /\ pack_unused' = {}
    /\ pc' = "unwound"
    /\ UNCHANGED <<unused_indices, drain, failed, last, prev, owned_id_iter,
                   borrowed_iter, other, markers>>

AbortNext ==
    \/ InsertBesideIterator
    \/ RemoveBesideIterator
    \/ PopBesideIterator
    \/ PackBegin
    \/ PackIteration
    \/ PackEnd
    \/ PackRemapPanics

AbortSpec == OwnedInit /\ [][AbortNext]_vars

----------------------------------------------------------------------------
\* IdMap (map.rs), the older container with the same two fields. Its insert,
\* remove, pop and pop_back_unused have the bodies of IdVec's, so the map is
\* built by the calls made on the IdVec; its pack is its own. The callback
\* of IdMap::pack, which is handed the map, is taken to leave it alone.

\* One turn of `for unused_index in unused_indices.into_iter()` of
\* IdMap::pack. `self` is the map, whose own set of unused indices pack has
\* replaced by an empty one. Yields the map, the remap call made (an Option)
\* and the assertions that fired.
IdMap_pack_iteration(self, unused_index) ==
    IF index_is_in_range(self, unused_index)
    THEN LET last_used_element_index == Len(self.elements) - 1
             popped == pop_back_unused(
                 [elements |-> VecPop(VecSwap(self.elements,
                                              last_used_element_index,
                                              unused_index)),
                  unused_indices |-> self.unused_indices])
         IN  [self   |-> popped,
              remap  |-> Some(<<last_used_element_index, unused_index>>),
              failed |-> debug_assert_last_element_is_used(self)
                         \cup debug_assert_last_element_is_used(popped)]
    ELSE [self |-> self, remap |-> None, failed |-> {}]

\* IdMap::pack: `mem::replace(&mut self.unused_indices, HashSet::new())`.
\* While pack runs, last.out tells for each slot of the vector the index its
\* element had when pack was called.
IdMapPackBegin ==
    /\ Idle
    /\ pc' = "map_pack"
    /\ pack_unused' = unused_indices
    /\ unused_indices' = {}
    /\ remaps' = <<>>
    /\ last' = Call("IdMap::pack", NoId, NoId, NoValue,
                    [i \in 1 .. Len(elements) |-> i - 1], NoPredicate)
    /\ prev' = Summary(last)
    /\ UNCHANGED <<elements, drain, failed, owned_id_iter, borrowed_iter, other, markers>>

\* IdMap::pack: one turn of the for loop, for any element the consumed set's
\* iterator may produce next. A remap call is recorded as <<old, new, origin>>,
\* origin being the index the moved element had when pack was called.
IdMapPackIteration ==
    /\ pc = "map_pack" /\ failed = {}
    /\ \E unused_index \in pack_unused :
          LET r == IdMap_pack_iteration(Self, unused_index)
          IN  /\ elements' = r.self.elements
              /\ unused_indices' = r.self.unused_indices
              /\ pack_unused' = pack_unused \ {unused_index}
              /\ remaps' = IF r.remap = None THEN remaps
                           ELSE Append(remaps,
                                       r.remap[1] \o <<last.out[r.remap[1][1] + 1]>>)
              /\ failed' = failed \cup r.failed
              /\ last' = [last EXCEPT !.out =
                              IdMap_pack_iteration(
                                  [elements |-> @, unused_indices |-> unused_indices],
                                  unused_index).self.elements]
    /\ UNCHANGED <<pc, drain, prev, owned_id_iter, borrowed_iter, other, markers>>

\* IdMap::pack: the loop has ended; `self.shrink_to_fit()` and return.
IdMapPackEnd ==
    /\ pc = "map_pack" /\ failed = {}
    /\ pack_unused = {}
    /\ pc' = "idle"
    /\ failed' = failed \cup debug_assert_last_element_is_used(Self)
    /\ UNCHANGED <<elements, unused_indices, pack_unused, remaps, drain, last,
                   prev, owned_id_iter, borrowed_iter, other, markers>>

MapNext ==
    \/ InsertBesideIterator
    \/ RemoveBesideIterator
    \/ PopBesideIterator
    \/ IdMapPackBegin
    \/ IdMapPackIteration
    \/ IdMapPackEnd

MapSpec == OwnedInit /\ [][MapNext]_vars

----------------------------------------------------------------------------
\* Both iterators called from both ends. The IdVec is built by calls made
\* while no OwnedIdIter lives: the OwnedIdIter reads only its own copy of the
\* unused indices, and OwnedSpec has the calls made beside it.

InsertBeforeIterator == ~owned_id_iter.live /\ InsertBesideIterator

RemoveBeforeIterator == ~owned_id_iter.live /\ RemoveBesideIterator

PopBeforeIterator == ~owned_id_iter.live /\ PopBesideIterator

MixedNext ==
    \/ InsertBeforeIterator
    \/ RemoveBeforeIterator
    \/ PopBeforeIterator
    \/ IterBegin
    \/ IterNext
    \/ IterNextBack
    \/ IterEnd
    \/ GetIds
    \/ OwnedIdIterNext
    \/ OwnedIdIterNextBack
    \/ OwnedIdIterNextAfterNone

MixedSpec == OwnedInit /\ [][MixedNext]_vars

\* The number of handles an iterator with these cursors and this set of
\* unused indices has still to yield.
Remaining(inclusive_front_index, exclusive_back_index, unused_ids) ==
    Cardinality({i \in inclusive_front_index .. (exclusive_back_index - 1) :
                    i \notin unused_ids})

\* (lower, Some(upper)) is the hint of an iterator with these cursors that has
\* `remaining` handles to yield.
ValidHint(hint, inclusive_front_index, exclusive_back_index, remaining) ==
    /\ hint # None
    /\ hint[1][2] = Some(exclusive_back_index - inclusive_front_index)
    /\ hint[1][1] <= remaining
    /\ remaining <= hint[1][2][1]

\* C23: size_hint of the borrowing iterators and of OwnedIdIter is a valid
\* bound at every point of iteration, also after next() has returned None:
\* it does not underflow, its upper bound is the back cursor minus the front
\* cursor, and the number of handles still to be yielded lies between its
\* lower and its upper bound.
SizeHintValid ==
    /\ (pc = "iter" /\ failed = {}) =>
          /\ Iter_size_hint(borrowed_iter, Self).failed = {}
          /\ ValidHint(Iter_size_hint(borrowed_iter, Self).hint,
                       borrowed_iter.inclusive_front_index,
                       borrowed_iter.exclusive_back_index,
                       Remaining(borrowed_iter.inclusive_front_index,
                                 borrowed_iter.exclusive_back_index,
                                 unused_indices))
    /\ owned_id_iter.live =>
          /\ OwnedIdIter_size_hint(owned_id_iter).failed = {}
          /\ ValidHint(OwnedIdIter_size_hint(owned_id_iter).hint,
                       owned_id_iter.inclusive_front_index,
                       owned_id_iter.exclusive_back_index,
                       Remaining(owned_id_iter.inclusive_front_index,
                                 owned_id_iter.exclusive_back_index,
                                 owned_id_iter.unused_ids))

----------------------------------------------------------------------------
\* The hint (n, Some(n)).
ExactHint(n) == Some(<<n, Some(n)>>)

\* size_hint of the IntoElements `into` is exact now and after each of the
\* next() calls that follow, the one that returns None included.
RECURSIVE IntoElementsExactFrom(_)
IntoElementsExactFrom(into) ==
    /\ IntoElements_size_hint(into).failed = {}
    /\ IntoElements_size_hint(into).hint
          = ExactHint(Len(IntoElements_collect(into).items))
    /\ LET r == IntoElements_next(into)
       IN  IF r.item = None
           THEN /\ IntoElements_size_hint(r.into).failed = {}
                /\ IntoElements_size_hint(r.into).hint = ExactHint(0)
           ELSE IntoElementsExactFrom(r.into)

\* C24: IntoElements and DrainElements are exact-size. At every point of
\* iteration size_hint() is (n, Some(n)) with n the number of elements the
\* iterator will still yield, n is len() of the IdVec right after creation,
\* and neither subtraction of size_hint underflows.
ExactSize ==
    /\ pc = "idle" =>
          /\ IntoElements_size_hint(into_elements(Self)).hint = ExactHint(len(Self))
          /\ IntoElementsExactFrom(into_elements(Self))
    /\ (pc = "drain" /\ failed = {}) =>
          /\ DrainElements_size_hint(drain, unused_indices).failed = {}
          /\ DrainElements_size_hint(drain, unused_indices).hint
                = ExactHint(len(last.pre) - Len(last.out))

\* C24 witness: a drain that has yielded an element and has a dead slot
\* and an alive element ahead.
ExactSize_Witness ==
    /\ pc = "drain"
    /\ Len(last.out) >= 1
    /\ unused_indices # {}
    /\ Len(last.out) < len(last.pre)

----------------------------------------------------------------------------
\* Two IdVecs. `other` is a clone of the IdVec taken at some point; the IdVec
\* goes on changing by insert, remove and pop, and the two are compared.

\* let other = self.clone();
CloneSelf ==
    /\ Idle
    /\ other' = Self
    /\ UNCHANGED <<elements, unused_indices, pc, pack_unused, remaps, drain,
                   failed, last, prev, owned_id_iter, borrowed_iter, markers>>

PairNext ==
    \/ InsertBesideIterator
    \/ RemoveBesideIterator
    \/ PopBesideIterator
    \/ CloneSelf

PairSpec == OwnedInit /\ [][PairNext]_vars

\* The same alive handles, each with the same value.
SameAlivePairs(a, b) ==
    /\ Alive(a) = Alive(b)
    /\ \A h \in Alive(a) : get(a, h) = get(b, h)

\* C25: a == b is true if and only if a and b have the same alive handles
\* and every alive handle has the same value in both; what the dead slots
\* hold does not matter, and a == b is b == a.
EqIsSameAlivePairs ==
    /\ eq(Self, other) <=> SameAlivePairs(Self, other)
    /\ eq(Self, other) <=> eq(other, Self)

\* C25 witness: two equal IdVecs whose dead slots hold different values.
EqIsSameAlivePairs_Witness ==
    /\ eq(Self, other)
    /\ unused_indices # {}
    /\ Self # other

\* The number of alive handles of `self` that hold the value v.
Occurrences(self, v) == Cardinality({h \in Alive(self) : get(self, h) = Some(v)})

\* C26: elements_eq(a, b) is true if and only if every value is alive in a as
\* many times as it is alive in b, and a.elements_eq(b) is b.elements_eq(a).
ElementsEqIsSameValues ==
    /\ elements_eq(Self, other)
          <=> \A v \in Values : Occurrences(Self, v) = Occurrences(other, v)
    /\ elements_eq(Self, other) <=> elements_eq(other, Self)

----------------------------------------------------------------------------
HandlesOf(self, v) == {h \in Alive(self) : get(self, h) = Some(v)}

\* C28: contains_element(v) is true if and only if an alive handle holds v,
\* and find_id_of_element(v) is the lowest alive handle that holds v, or None;
\* a value held by dead slots only is not found.
SearchIgnoresRemoved ==
    Idle =>
        \A v \in Values :
           /\ contains_element(Self, v) <=> HandlesOf(Self, v) # {}
           /\ find_id_of_element(Self, v)
                 = IF HandlesOf(Self, v) = {} THEN None
                   ELSE Some(CHOOSE h \in HandlesOf(Self, v) :
                                \A g \in HandlesOf(Self, v) : h <= g)

\* C28 witness: a value that a dead slot holds and no alive handle holds.
SearchIgnoresRemoved_Witness ==
    /\ Idle
    /\ \E d \in unused_indices : HandlesOf(Self, elements[d + 1]) = {}

\* C29: swap_elements(a, b) with both handles valid exchanges the values at a
\* and b and changes nothing else: not the value of any other slot, not the
\* dead indices, not the length of the vector, not len().
SwapFrame ==
    (Idle /\ last.op = "swap_elements"
          /\ contains_id(last.pre, last.id) /\ contains_id(last.pre, last.id2)) =>
        /\ get(Self, last.id) = get(last.pre, last.id2)
        /\ get(Self, last.id2) = get(last.pre, last.id)
        /\ Len(elements) = Len(last.pre.elements)
        /\ \A i \in 0 .. (Len(elements) - 1) :
              i \notin {last.id, last.id2} => elements[i + 1] = last.pre.elements[i + 1]
        /\ unused_indices = last.pre.unused_indices
        /\ len(Self) = len(last.pre)

\* C29 witness: a swap of two handles with different values in an IdVec
\* that has a dead slot.
SwapFrame_Witness ==
    /\ Idle /\ last.op = "swap_elements"
    /\ contains_id(last.pre, last.id) /\ contains_id(last.pre, last.id2)
    /\ get(last.pre, last.id) # get(last.pre, last.id2)
    /\ unused_indices # {}

\* C30: pop creates no dead index. After pop() there are at most as many
\* dead indices as before, a packed IdVec stays packed, and a pop of the
\* last alive element leaves the IdVec empty and packed.
PopCreatesNoDeadIndex ==
    (Idle /\ last.op = "pop") =>
        /\ Cardinality(unused_indices) <= Cardinality(last.pre.unused_indices)
        /\ is_packed(last.pre) => is_packed(Self)
        /\ len(last.pre) = 1 => (is_empty(Self) /\ is_packed(Self))

\* C30 witness: a pop of the only alive element of an IdVec with dead slots.
PopCreatesNoDeadIndex_Witness ==
    /\ Idle /\ last.op = "pop"
    /\ len(last.pre) = 1
    /\ last.pre.unused_indices # {}

----------------------------------------------------------------------------
\* The two element markers, driven side by side: every call is made on both.

\* mark_element_used(index, used) on the HashSetElementMarker and on the
\* BitVecElementMarker.
MarkElementUsed ==
    /\ markers.failed = {}
    /\ \E index \in Ids, used \in BOOLEAN :
          LET h == HashSetElementMarker_mark_element_used(markers.hash_set, index, used)
              b == BitVecElementMarker_mark_element_used(markers.bit_vec, index, used)
          IN  markers' =
                [hash_set |-> h.self,
                 bit_vec  |-> b.self,
                 marked   |-> [markers.marked EXCEPT
                                  ![index] = IF used THEN "used" ELSE "unused"],
                 call     |-> [op |-> "mark_element_used", index |-> index,
                               used |-> used,
                               hash_set_before |->
                                   HashSetElementMarker_element_is_used(
                                       markers.hash_set, index),
                               bit_vec_before |->
                                   BitVecElementMarker_element_is_used(
                                       markers.bit_vec, index),
                               hash_set_result |-> h.result,
                               bit_vec_result |->
                                   IF b.result = None THEN FALSE ELSE b.result[1]],
                 failed   |-> b.failed]
    /\ UNCHANGED <<elements, unused_indices, pc, pack_unused, remaps, drain,
                   failed, last, prev, owned_id_iter, borrowed_iter, other>>

MarkerNext == MarkElementUsed

MarkerSpec == OwnedInit /\ [][MarkerNext]_vars

\* C31: mark_element_used(i, flag) returns, for both markers, what
\* element_is_used(i) was before the call, element_is_used(i) is flag after
\* it, and the same call made again returns flag and changes nothing.
MarkReturnsPrevious ==
    markers.call.op = "mark_element_used" =>
        LET index == markers.call.index
            used == markers.call.used
        IN  /\ markers.failed = {}
            /\ markers.call.hash_set_result = markers.call.hash_set_before
            /\ markers.call.bit_vec_result = markers.call.bit_vec_before
            /\ HashSetElementMarker_element_is_used(markers.hash_set, index) = used
            /\ BitVecElementMarker_element_is_used(markers.bit_vec, index) = used
            /\ HashSetElementMarker_mark_element_used(markers.hash_set, index, used)
                  = [self |-> markers.hash_set, result |-> used]
            /\ BitVecElementMarker_mark_element_used(markers.bit_vec, index, used)
                  = [self |-> markers.bit_vec, result |-> Some(used), failed |-> {}]

\* C32: for both markers element_is_used(i) is true for every index that
\* was never passed to mark_element_used, on a fresh marker in particular.
MarkerDefaultIsUsed ==
    \A i \in Ids :
       markers.marked[i] = "never" =>
           /\ HashSetElementMarker_element_is_used(markers.hash_set, i)
           /\ BitVecElementMarker_element_is_used(markers.bit_vec, i)

\* The indices last marked with used == false.
LastMarkedUnused == {i \in Ids : markers.marked[i] = "unused"}

\* C33: for both markers, after any sequence of calls unused_element_count()
\* is the number of indices unused_elements() yields, which is the number of
\* indices last marked with used == false.
MarkerCountConsistent ==
    markers.failed = {} =>
        /\ HashSetElementMarker_unused_element_count(markers.hash_set)
              = Cardinality(HashSetElementMarker_unused_elements(markers.hash_set))
        /\ Cardinality(HashSetElementMarker_unused_elements(markers.hash_set))
              = Cardinality(LastMarkedUnused)
        /\ BitVecElementMarker_unused_element_count(markers.bit_vec)
              = Cardinality(BitVecElementMarker_unused_elements(markers.bit_vec))
        /\ Cardinality(BitVecElementMarker_unused_elements(markers.bit_vec))
              = Cardinality(LastMarkedUnused)

\* C34: the two markers agree. Every call returns the same in both, and
\* after every step element_is_used(i), unused_element_count() and the
\* indices of unused_elements() are the same in both.
MarkersAgree ==
    /\ markers.failed = {}
    /\ markers.call.hash_set_result = markers.call.bit_vec_result
    /\ \A i \in Ids :
          HashSetElementMarker_element_is_used(markers.hash_set, i)
             = BitVecElementMarker_element_is_used(markers.bit_vec, i)
    /\ HashSetElementMarker_unused_element_count(markers.hash_set)
          = BitVecElementMarker_unused_element_count(markers.bit_vec)
    /\ HashSetElementMarker_unused_elements(markers.hash_set)
          = BitVecElementMarker_unused_elements(markers.bit_vec)

----------------------------------------------------------------------------
\* C35: insert reuses dead slots before growing. With a dead slot, insert
\* returns a handle whose slot was dead, the vector keeps its length and
\* there is one dead index less; only a packed IdVec grows, and the handle
\* is then the previous length of the vector.
InsertReusesDeadSlots ==
    (Idle /\ last.op = "insert") =>
        IF last.pre.unused_indices # {}
        THEN /\ last.id \in last.pre.unused_indices
             /\ Len(elements) = Len(last.pre.elements)
             /\ Cardinality(unused_indices)
                   = Cardinality(last.pre.unused_indices) - 1
        ELSE /\ last.id = Len(last.pre.elements)
             /\ Len(elements) = Len(last.pre.elements) + 1
             /\ is_packed(Self)

\* C35 witness: an insert into an IdVec with two dead slots.
InsertReusesDeadSlots_Witness ==
    /\ Idle /\ last.op = "insert"
    /\ Cardinality(last.pre.unused_indices) >= 2

\* C36: pack preserves content up to renaming. Following the callback
\* invocations in order from a handle h0 alive before pack leads to a handle
\* that holds after pack the value h0 held before; two alive handles lead to
\* different handles; every value is alive as often after pack as before.
PackPreservesContent ==
    (Idle /\ last.op = "pack") =>
        /\ \A h0 \in Alive(last.pre) :
              /\ contains_id(Self, Follow(h0, remaps, 1))
              /\ get(Self, Follow(h0, remaps, 1)) = get(last.pre, h0)
        /\ \A h0 \in Alive(last.pre), g0 \in Alive(last.pre) :
              h0 # g0 => Follow(h0, remaps, 1) # Follow(g0, remaps, 1)
        /\ \A v \in Values : Occurrences(Self, v) = Occurrences(last.pre, v)

\* C36 witness: pack has moved an element into a dead slot that held a value
\* no alive handle had.
PackPreservesContent_Witness ==
    /\ Idle /\ last.op = "pack"
    /\ remaps # <<>>
    /\ \E d \in last.pre.unused_indices :
          Occurrences(last.pre, last.pre.elements[d + 1]) = 0

\* C37: mixed-direction iteration is exhaustive and disjoint. Whatever the
\* order of the next() and next_back() calls on one Iter, no handle is
\* returned twice, every handle returned is alive, once a call has returned
\* None no call returns an item, and by then every alive handle has been
\* returned.
MixedIterationExhaustive ==
    /\ pc = "iter" =>
          /\ failed = {}
          /\ ~borrowed_iter.twice
          /\ borrowed_iter.yielded \subseteq Alive(Self)
          /\ ~borrowed_iter.revived
          /\ borrowed_iter.ended => borrowed_iter.yielded = Alive(Self)
    /\ owned_id_iter.live =>
          LET yielded == owned_id_iter.yielded
          IN  /\ \A i \in 1 .. Len(yielded), j \in 1 .. Len(yielded) :
                    yielded[i] = yielded[j] => i = j
              /\ \A i \in 1 .. Len(yielded) :
                    yielded[i] \in owned_id_iter.created
              /\ ~owned_id_iter.revived
              /\ owned_id_iter.exhausted =>
                    {yielded[i] : i \in 1 .. Len(yielded)}
                       = owned_id_iter.created

\* C37 witness: an iteration over an IdVec with a dead slot between alive
\* ones has ended after items came from both ends, and the front cursor has
\* passed the back cursor.
MixedIterationExhaustive_Witness ==
    /\ pc = "iter"
    /\ borrowed_iter.ended
    /\ unused_indices # {}
    /\ {0, Len(elements) - 1} \subseteq borrowed_iter.yielded
    /\ Cardinality(borrowed_iter.yielded) >= 2
    /\ borrowed_iter.exclusive_back_index < Len(elements)
    /\ borrowed_iter.inclusive_front_index > borrowed_iter.exclusive_back_index

\* C38: looking up an out-of-range handle never aborts. For every index a
\* usize can hold that is not below the length of the vector, the largest
\* one included, get and get_mut return None without a panic, in a build
\* with overflow checks and in one without.
OutOfRangeLookupNeverAborts ==
    Idle =>
        \A element \in Ids \cup {usize_MAX}, overflow_checks \in BOOLEAN :
            element >= Len(elements) =>
                /\ get_usize(Self, element, overflow_checks).failed = {}
                /\ get_usize(Self, element, overflow_checks).value = None

\* C39: pack has no partially applied state. At every call of remap, seen
\* when the callback panics there, every slot that was dead when pack was
\* called and that no callback call has named as a new handle is reported
\* dead by contains_id and by get, and len() is the number of elements that
\* were alive when pack was called.
PackNeverPartiallyApplied ==
    pc = "unwound" =>
        /\ \A d \in last.pre.unused_indices :
              (\A i \in 1 .. Len(remaps) : remaps[i][2] # d) =>
                  /\ ~contains_id(Self, d)
                  /\ get(Self, d) = None
        /\ len(Self) = len(last.pre)

\* C40: IdMap::pack preserves content. For every order in which the consumed
\* set of unused indices is iterated: remap is never called with old = new
\* nor with an old handle whose slot holds a removed element; when the loop
\* has ended the map is packed, len() is the number of elements that were
\* alive when pack was called, and every value is alive as often as before.
IdMapPackPreservesContent ==
    pc = "map_pack" =>
        /\ \A i \in 1 .. Len(remaps) :
              /\ remaps[i][1] # remaps[i][2]
              /\ remaps[i][3] \notin last.pre.unused_indices
        /\ pack_unused = {} =>
              /\ failed = {}
              /\ is_packed(Self)
              /\ len(Self) = len(last.pre)
              /\ \A v \in Values :
                    Occurrences(Self, v) = Occurrences(last.pre, v)

====
